---- MODULE Spec2Model ----
(***************************************************************************)
(* SyncDB: the free page list (free list source file) and the table layer  *)
(* (table.go) as one state machine.  The free list and the table store do  *)
(* not share state; each has its own specification over the same module.   *)
(***************************************************************************)
EXTENDS Integers, Sequences, FiniteSets, TLC

(***************************************************************************)
(* Bounds of the model.                                                    *)
(***************************************************************************)
\* slots per list node; the source computes (BTREE_PAGE_SIZE - 8) / 8
FREE_LIST_CAP == 2
\* the longest byte string handed to the codec
MaxStrLen == 2
\* data pages the caller holds at the start and may free
NData == 4
\* PushTail and PopHead are not called once tailSeq has passed this
MaxSeq == 8

(***************************************************************************)
(* State.                                                                  *)
(***************************************************************************)
VARIABLES
    fl,       \* the FreeList struct: headPage, headSeq, tailPage, tailSeq, maxSeq
    pages,    \* the page store behind fl.get / fl.set / fl.new
    abort,    \* an assert of the free list failed: the program has stopped
    owned,    \* pages the caller holds (it frees only these)
    op,       \* the last free-list call made
    ret,      \* what the last PopHead returned (0 otherwise)
    taken,    \* the id the last call took from the head as a tail node (0: none)
    log,      \* every id written to the list, by sequence position
    phase,    \* "any": free interleaving; "push"/"pop": the push-then-pop run
    pushed,   \* push-then-pop run: the ids pushed, in order
    rets,     \* push-then-pop run: what the PopHead calls returned, in order
    kv,       \* db.kv: the ordered key-value store, key bytes -> value bytes
    tables,   \* db.tables: the schema cache, table name -> TableDef
    sc,       \* the Scanner the caller holds, with the rows it has read
    res,      \* the last table call: its arguments and what it returned
    reg,      \* the tables created, in order, as the callers' calls amount to
    rows,     \* per table name, the rows the callers' writes amount to
    hands,    \* a caller has written rows of @meta or @table itself
    cod       \* a run of the codec: the values, their encodings, the decodings

flvars == <<fl, pages, abort, owned, op, ret, taken, log, phase, pushed, rets>>

dbvars == <<kv, tables, sc, res, reg, rows, hands>>

vars == <<flvars, dbvars, cod>>

(***************************************************************************)
(* Free list: LNode, FreeList, seq2idx, SetMaxSeq, PopHead, PushTail,      *)
(* flPop.  A page is [next, ptrs]; the page store is a sequence indexed by *)
(* page id (fl.new appends, so a fresh id is Len + 1; id 0 is "none").     *)
(***************************************************************************)

\* the content of a page the list never wrote: indeterminate bytes
Junk == -1

\* make([]byte, BTREE_PAGE_SIZE): a zero-filled page
ZeroPage == [next |-> 0, ptrs |-> [i \in 1..FREE_LIST_CAP |-> 0]]

\* a page that was in use by the caller before it was freed
JunkPage == [next |-> Junk, ptrs |-> [i \in 1..FREE_LIST_CAP |-> Junk]]

getNext(node) == node.next

\* mutant: the next pointer is not written
setNext_drop(node, next) == node

setNext(node, next) == [node EXCEPT !.next = next]

getPtr(node, idx) == node.ptrs[idx + 1]

setPtr(node, idx, ptr) == [node EXCEPT !.ptrs[idx + 1] = ptr]

seq2idx(seq) == seq % FREE_LIST_CAP

\* mutant: the list counts as empty only at the tail, not at the watermark
flEmpty_tail(f) == f.headSeq = f.tailSeq

\* mutant: flPop without the watermark test
flEmpty_never(f) == f.headSeq < 0

\* the watermark test at the top of flPop
flEmpty(f) == f.headSeq = f.maxSeq

\* s = [fl, pages, abort]; the result carries the two return values
flPop(s) ==
    IF flEmpty(s.fl)
    THEN [s |-> s, ptr |-> 0, head |-> 0]
    ELSE LET node == s.pages[s.fl.headPage]
             ptr  == getPtr(node, seq2idx(s.fl.headSeq))
             seq1 == s.fl.headSeq + 1
         IN  IF seq2idx(seq1) = 0
             THEN [s    |-> [s EXCEPT !.fl.headSeq  = seq1,
                                      !.fl.headPage = getNext(node),
                                      !.abort = (getNext(node) = 0)],
                   ptr  |-> ptr,
                   head |-> s.fl.headPage]
             ELSE [s    |-> [s EXCEPT !.fl.headSeq = seq1],
                   ptr  |-> ptr,
                   head |-> 0]

\* mutant: the slot index is taken after tailSeq was advanced
pushSlot_late(s, ptr) ==
    [s EXCEPT !.pages[s.fl.tailPage] = setPtr(@, seq2idx(s.fl.tailSeq + 1), ptr),
              !.fl.tailSeq = @ + 1]

\* the first two statements of PushTail: write the slot, advance tailSeq
pushSlot(s, ptr) ==
    [s EXCEPT !.pages[s.fl.tailPage] = setPtr(@, seq2idx(s.fl.tailSeq), ptr),
              !.fl.tailSeq = @ + 1]

\* mutant: the rollover always allocates a fresh page
pushRollover_fresh(s) ==
    LET next == Len(s.pages) + 1
        pg1  == Append(s.pages, ZeroPage)
        pg2  == [pg1 EXCEPT ![s.fl.tailPage] = setNext(@, next)]
    IN  [s |-> [s EXCEPT !.pages = pg2, !.fl.tailPage = next],
         next |-> 0, head |-> 0]

\* the rollover branch of PushTail, entered with the tail node full
pushRollover(s) ==
    LET r     == flPop(s)
        fresh == r.ptr = 0
        next  == IF fresh THEN Len(r.s.pages) + 1 ELSE r.ptr
        pg1   == IF fresh THEN Append(r.s.pages, ZeroPage) ELSE r.s.pages
        pg2   == [pg1 EXCEPT ![r.s.fl.tailPage] = setNext(@, next)]
        s2    == [r.s EXCEPT !.pages = pg2, !.fl.tailPage = next]
        s3    == IF r.head # 0
                 THEN [s2 EXCEPT !.pages[next] = setPtr(@, 0, r.head),
                                 !.fl.tailSeq = @ + 1]
                 ELSE s2
    IN  IF r.s.abort
        THEN [s |-> r.s, next |-> 0, head |-> 0]
        ELSE [s |-> s3, next |-> IF fresh THEN 0 ELSE next, head |-> r.head]

\* PushTail with its locals: next is the id taken from the head as the new
\* tail node (0: none was taken), head the exhausted head node it re-pushed
pushTail(s, ptr) ==
    LET s1 == pushSlot(s, ptr)
    IN  IF seq2idx(s1.fl.tailSeq) = 0
        THEN pushRollover(s1)
        ELSE [s |-> s1, next |-> 0, head |-> 0]

PushTail(s, ptr) == pushTail(s, ptr).s

\* mutant: the exhausted head node is returned in place of the item
popHead_node(s) ==
    LET r == flPop(s)
    IN  IF r.s.abort
        THEN [s |-> r.s, ptr |-> 0, head |-> 0, next |-> 0, head2 |-> 0]
        ELSE IF r.head # 0
        THEN LET p == pushTail(r.s, r.head)
             IN  [s |-> p.s, ptr |-> r.head, head |-> r.head,
                  next |-> p.next, head2 |-> p.head]
        ELSE [s |-> r.s, ptr |-> r.ptr, head |-> 0, next |-> 0, head2 |-> 0]

\* mutant: the exhausted head node is not pushed back
popHead_drop(s) ==
    LET r == flPop(s)
    IN  [s |-> r.s, ptr |-> r.ptr, head |-> 0, next |-> 0, head2 |-> 0]

\* PopHead with its locals
popHead(s) ==
    LET r == flPop(s)
    IN  IF r.s.abort
        THEN [s |-> r.s, ptr |-> 0, head |-> 0, next |-> 0, head2 |-> 0]
        ELSE IF r.head # 0
        THEN LET p == pushTail(r.s, r.head)
             IN  [s |-> p.s, ptr |-> r.ptr, head |-> r.head,
                  next |-> p.next, head2 |-> p.head]
        ELSE [s |-> r.s, ptr |-> r.ptr, head |-> 0, next |-> 0, head2 |-> 0]

SetMaxSeq(f) == [f EXCEPT !.maxSeq = f.tailSeq]

\* F(v), with v worked out once
With(v, F(_)) == CHOOSE y \in {F(x) : x \in {v}} : TRUE

(***************************************************************************)
(* Table layer (table.go): values, records, the codec.                     *)
(* A byte string is a sequence of 0..255.  An int64 is drawn from the      *)
(* 32-bit range, where its 8-byte encoding is computed exactly.            *)
(***************************************************************************)

TYPE_ERROR == 0
TYPE_BYTES == 1
TYPE_INT64 == 2

\* the zero Value: make([]Value, n) fills with it
NoValue == [Type |-> TYPE_ERROR, I64 |-> 0, Str |-> <<>>]

\* Value{Type: TYPE_BYTES, Str: val}
BytesValue(val) == [Type |-> TYPE_BYTES, I64 |-> 0, Str |-> val]

\* Value{Type: TYPE_INT64, I64: val}
Int64Value(val) == [Type |-> TYPE_INT64, I64 |-> val, Str |-> <<>>]

\* Value{Type: type_}
TypedValue(type) == [Type |-> type, I64 |-> 0, Str |-> <<>>]

EmptyRecord == [Cols |-> <<>>, Vals |-> <<>>]

AddStr(rec, col, val) ==
    [Cols |-> Append(rec.Cols, col), Vals |-> Append(rec.Vals, BytesValue(val))]

AddInt64(rec, col, val) ==
    [Cols |-> Append(rec.Cols, col), Vals |-> Append(rec.Vals, Int64Value(val))]

\* Record.Get: the index of the first column named key, 0 for nil
recIndex(rec, key) ==
    IF \E i \in 1..Len(rec.Cols) : rec.Cols[i] = key
    THEN CHOOSE i \in 1..Len(rec.Cols) :
             /\ rec.Cols[i] = key
             /\ \A j \in 1..(i - 1) : rec.Cols[j] # key
    ELSE 0

NoErr == [msg |-> "", arg |-> ""]

Err(msg, arg) == [msg |-> msg, arg |-> arg]

\* the first index in 1..n that satisfies bad, 0 when none does
firstBad(n, bad(_)) ==
    IF \E i \in 1..n : bad(i)
    THEN CHOOSE i \in 1..n : bad(i) /\ \A j \in 1..(i - 1) : ~bad(j)
    ELSE 0

reorderRecord(tdef, rec) ==
    LET present(i) == recIndex(rec, tdef.Cols[i]) # 0
        value(i)   == rec.Vals[recIndex(rec, tdef.Cols[i])]
        mismatch(i) == present(i) /\ value(i).Type # tdef.Types[i]
        b == firstBad(Len(tdef.Cols), mismatch)
    IN  IF b # 0
        THEN [vals |-> <<>>, err |-> Err("bad column type", tdef.Cols[b])]
        ELSE [vals |-> [i \in 1..Len(tdef.Cols) |->
                           IF present(i) THEN value(i) ELSE NoValue],
              err  |-> NoErr]

\* mutant: columns beyond the first n are not looked at
valuesComplete_lax(tdef, vals, n) ==
    LET missing(i) == i <= n /\ vals[i].Type = 0
        b == firstBad(Len(vals), missing)
    IN  IF b = 0 THEN NoErr ELSE Err("missing column", tdef.Cols[b])

valuesComplete(tdef, vals, n) ==
    LET missing(i) == i <= n /\ vals[i].Type = 0
        extra(i)   == i > n /\ vals[i].Type # 0
        bad(i)     == missing(i) \/ extra(i)
        b == firstBad(Len(vals), bad)
    IN  IF b = 0 THEN NoErr
        ELSE IF missing(b) THEN Err("missing column", tdef.Cols[b])
        ELSE Err("extra column", tdef.Cols[b])

RECURSIVE escapeString_nul(_)
\* mutant: only the byte 0x00 is escaped
escapeString_nul(in) ==
    IF in = <<>> THEN <<>>
    ELSE (IF Head(in) = 0 THEN <<1, 1>> ELSE <<Head(in)>>)
         \o escapeString_nul(Tail(in))

RECURSIVE escapeString(_)
escapeString(in) ==
    IF in = <<>> THEN <<>>
    ELSE (IF Head(in) <= 1 THEN <<1, Head(in) + 1>> ELSE <<Head(in)>>)
         \o escapeString(Tail(in))

RECURSIVE unescapeString(_)
\* the assert on the byte after 0x01 is not modelled: the store holds only
\* what escapeString wrote
unescapeString(in) ==
    IF in = <<>> THEN <<>>
    ELSE IF Head(in) = 1 /\ Len(in) >= 2
    THEN <<in[2] - 1>> \o unescapeString(Tail(Tail(in)))
    ELSE <<Head(in)>> \o unescapeString(Tail(in))

\* byte k (0 = lowest) of the two's complement form of v, k in 0..3
byteOf(v, k) == (v \div (256 ^ k)) % 256

\* bytes 4..7 of the two's complement form of a v in the 32-bit range
signByte(v) == IF v < 0 THEN 255 ELSE 0

\* mutant: the sign bit is not flipped
encodeInt64_noflip(v) ==
    << signByte(v), signByte(v), signByte(v), signByte(v),
       byteOf(v, 3), byteOf(v, 2), byteOf(v, 1), byteOf(v, 0) >>

\* uint64(v) + (1 << 63), big endian: the top byte has its high bit flipped
encodeInt64(v) ==
    << (signByte(v) + 128) % 256, signByte(v), signByte(v), signByte(v),
       byteOf(v, 3), byteOf(v, 2), byteOf(v, 1), byteOf(v, 0) >>

\* mutant: the lowest byte is not read
decodeInt64_short(in) ==
    (IF in[1] >= 128 THEN in[5] ELSE in[5] - 256) * 16777216
        + in[6] * 65536 + in[7] * 256

\* int64(BigEndian.Uint64(in[:8]) - (1 << 63)) for an encoding of the 32-bit range
decodeInt64(in) ==
    (IF in[1] >= 128 THEN in[5] ELSE in[5] - 256) * 16777216
        + in[6] * 65536 + in[7] * 256 + in[8]

RECURSIVE encodeValues(_, _)
encodeValues(out, vals) ==
    IF vals = <<>> THEN out
    ELSE LET v == Head(vals)
         IN  encodeValues(
                 IF v.Type = TYPE_INT64 THEN out \o encodeInt64(v.I64)
                 ELSE out \o escapeString(v.Str) \o <<0>>,
                 Tail(vals))

\* BigEndian.PutUint32 for a prefix below 2^31
putUint32BE(prefix) ==
    <<(prefix \div 16777216) % 256, (prefix \div 65536) % 256,
      (prefix \div 256) % 256, prefix % 256>>

\* mutant: every key gets the prefix 0
encodeKey_oneprefix(out, prefix, vals) == encodeValues(out \o putUint32BE(0), vals)

encodeKey(out, prefix, vals) == encodeValues(out \o putUint32BE(prefix), vals)

\* bytes.IndexByte(in, 0), 1-based; 0 when there is none
indexByte0(in) ==
    IF \E i \in 1..Len(in) : in[i] = 0
    THEN CHOOSE i \in 1..Len(in) : in[i] = 0 /\ \A j \in 1..(i - 1) : in[j] # 0
    ELSE 0

RECURSIVE decodeValues(_, _)
\* out is pre-tagged with the types; the result is the filled slots and the
\* input left over (the final assert wants it empty)
decodeValues(in, out) ==
    IF out = <<>> THEN [vals |-> <<>>, rest |-> in]
    ELSE LET o == Head(out)
             v == IF o.Type = TYPE_INT64
                  THEN [o EXCEPT !.I64 = decodeInt64(SubSeq(in, 1, 8))]
                  ELSE [o EXCEPT !.Str =
                           unescapeString(SubSeq(in, 1, indexByte0(in) - 1))]
             used == IF o.Type = TYPE_INT64 THEN 8 ELSE indexByte0(in)
             r == decodeValues(SubSeq(in, used + 1, Len(in)), Tail(out))
         IN  [vals |-> <<v>> \o r.vals, rest |-> r.rest]

decodeKey(in, out) == decodeValues(SubSeq(in, 5, Len(in)), out)

checkRecord(tdef, rec, n) ==
    With(reorderRecord(tdef, rec), LAMBDA r :
        IF r.err # NoErr THEN r
        ELSE With(valuesComplete(tdef, r.vals, n), LAMBDA err :
                 IF err # NoErr THEN [vals |-> <<>>, err |-> err] ELSE r))

\* slices.Index(tdef.Cols, c), 1-based
colIndex(tdef, c) == CHOOSE i \in 1..Len(tdef.Cols) : tdef.Cols[i] = c

getValues(tdef, rec, cols) ==
    LET absent(i) == recIndex(rec, cols[i]) = 0
        value(i)  == rec.Vals[recIndex(rec, cols[i])]
        mistyped(i) == ~absent(i) /\ value(i).Type # tdef.Types[colIndex(tdef, cols[i])]
        bad(i) == absent(i) \/ mistyped(i)
        b == firstBad(Len(cols), bad)
    IN  IF b = 0 THEN [vals |-> [i \in 1..Len(cols) |-> value(i)], err |-> NoErr]
        ELSE IF absent(b) THEN [vals |-> <<>>, err |-> Err("missing col.", tdef.Cols[b])]
        ELSE [vals |-> <<>>, err |-> Err("bad column type", cols[b])]

(***************************************************************************)
(* The ordered key-value store the table layer runs on (KV, BTree, BIter,  *)
(* cmpOk, the CMP_ and MODE_ constants).  Its source is not part of the    *)
(* files modelled here; it is modelled from its contract: keys compare by  *)
(* unsigned byte order, Update is conditional on the mode, Seek positions  *)
(* an iterator on the nearest key that satisfies the comparison.           *)
(***************************************************************************)

MODE_UPSERT == 0
MODE_UPDATE_ONLY == 1
MODE_INSERT_ONLY == 2

CMP_GE == 3
CMP_GT == 2
CMP_LT == -2
CMP_LE == -3

RECURSIVE bytesCompare(_, _)
\* bytes.Compare: -1, 0 or 1
bytesCompare(a, b) ==
    IF a = <<>> /\ b = <<>> THEN 0
    ELSE IF a = <<>> THEN -1
    ELSE IF b = <<>> THEN 1
    ELSE IF Head(a) < Head(b) THEN -1
    ELSE IF Head(a) > Head(b) THEN 1
    ELSE bytesCompare(Tail(a), Tail(b))

cmpOk(key, cmp, ref) ==
    LET r == bytesCompare(key, ref)
    IN  CASE cmp = CMP_GE -> r >= 0
          [] cmp = CMP_GT -> r > 0
          [] cmp = CMP_LT -> r < 0
          [] cmp = CMP_LE -> r <= 0
          [] OTHER -> FALSE

\* the smallest key of a non-empty set of keys
minKey(keys) == CHOOSE k \in keys : \A j \in keys : bytesCompare(k, j) <= 0

\* the largest key of a non-empty set of keys
maxKey(keys) == CHOOSE k \in keys : \A j \in keys : bytesCompare(k, j) >= 0

NoIter == [valid |-> FALSE, key |-> <<>>]

iterAt(keys, up) ==
    IF keys = {} THEN NoIter
    ELSE [valid |-> TRUE, key |-> IF up THEN minKey(keys) ELSE maxKey(keys)]

\* BTree.Seek: the nearest key that satisfies cmp against key
kvSeek(store, key, cmp) ==
    iterAt({k \in DOMAIN store : cmpOk(k, cmp, key)}, cmp > 0)

\* BIter.Next
iterNext(store, it) ==
    iterAt({k \in DOMAIN store : bytesCompare(k, it.key) > 0}, TRUE)

\* BIter.Prev
iterPrev(store, it) ==
    iterAt({k \in DOMAIN store : bytesCompare(k, it.key) < 0}, FALSE)

\* BIter.Deref
iterDeref(store, it) == [key |-> it.key, val |-> store[it.key]]

kvPut(store, key, val) ==
    [k \in (DOMAIN store) \cup {key} |-> IF k = key THEN val ELSE store[k]]

\* KV.Update: the conditional write, with the Added and Updated outputs
kvUpdate(store, key, val, mode) ==
    LET has == key \in DOMAIN store
        apply == CASE mode = MODE_UPSERT -> TRUE
                   [] mode = MODE_UPDATE_ONLY -> has
                   [] mode = MODE_INSERT_ONLY -> ~has
                   [] OTHER -> FALSE
    IN  [kv |-> IF apply THEN kvPut(store, key, val) ELSE store,
         Added |-> apply /\ ~has,
         Updated |-> apply]

\* KV.Del
kvDel(store, key) ==
    [kv |-> [k \in (DOMAIN store) \ {key} |-> store[k]],
     ok |-> key \in DOMAIN store]

(***************************************************************************)
(* Table layer: schemas.                                                   *)
(***************************************************************************)

\* the fields the code reads from a TableDef: Name, Types, Cols, Indexes and
\* the singular Prefix and PKeys.  For the internal tables Prefix is the
\* entry of Prefixes and PKeys the length of Indexes[0].
TDEF_META ==
    [Name |-> "@meta", Types |-> <<TYPE_BYTES, TYPE_BYTES>>,
     Cols |-> <<"key", "val">>, PKeys |-> 1, Prefix |-> 1,
     Indexes |-> << <<"key">> >>]

TDEF_TABLE ==
    [Name |-> "@table", Types |-> <<TYPE_BYTES, TYPE_BYTES>>,
     Cols |-> <<"name", "def">>, PKeys |-> 1, Prefix |-> 2,
     Indexes |-> << <<"name">> >>]

INTERNAL_TABLES == [n \in {"@meta", "@table"} |->
                       IF n = "@meta" THEN TDEF_META ELSE TDEF_TABLE]

\* a nil *TableDef; also the zero TableDef
NoTdef == [Name |-> "", Types |-> <<>>, Cols |-> <<>>, PKeys |-> 0,
           Prefix |-> 0, Indexes |-> <<>>]

TABLE_PREFIX_MIN == 100

\* []byte(s) for the strings that reach the store
StrBytes ==
    [s \in {"a", "b", "c", "id", "v", "k", "n", "next_prefix"} |->
        CASE s = "a" -> <<97>>
          [] s = "b" -> <<98>>
          [] s = "c" -> <<99>>
          [] s = "id" -> <<105, 100>>
          [] s = "v" -> <<118>>
          [] s = "k" -> <<107>>
          [] s = "n" -> <<110>>
          [] s = "next_prefix" ->
                <<110, 101, 120, 116, 95, 112, 114, 101, 102, 105, 120>>]

\* string(b)
BytesStr(b) ==
    IF \E s \in DOMAIN StrBytes : StrBytes[s] = b
    THEN CHOOSE s \in DOMAIN StrBytes : StrBytes[s] = b
    ELSE ""

RECURSIVE digits(_)
\* a number in decimal, as text
digits(n) == IF n < 10 THEN <<48 + n>> ELSE digits(n \div 10) \o <<48 + (n % 10)>>

RECURSIVE number(_)
number(ds) ==
    IF ds = <<>> THEN 0
    ELSE number(SubSeq(ds, 1, Len(ds) - 1)) * 10 + (ds[Len(ds)] - 48)

RECURSIVE join(_, _)
join(parts, sep) ==
    IF parts = <<>> THEN <<>>
    ELSE IF Len(parts) = 1 THEN parts[1]
    ELSE parts[1] \o <<sep>> \o join(Tail(parts), sep)

RECURSIVE split(_, _)
split(in, sep) ==
    IF \A i \in 1..Len(in) : in[i] # sep THEN <<in>>
    ELSE LET i == CHOOSE i \in 1..Len(in) :
                      in[i] = sep /\ \A j \in 1..(i - 1) : in[j] # sep
         IN  <<SubSeq(in, 1, i - 1)>> \o split(SubSeq(in, i + 1, Len(in)), sep)

\* json.Marshal(tdef): the fields as text, ';' between the fields and ','
\* between the entries of a list
marshalDef(tdef) ==
    join(<< StrBytes[tdef.Name],
            digits(tdef.Prefix),
            digits(tdef.PKeys),
            join([i \in 1..Len(tdef.Types) |-> digits(tdef.Types[i])], 44),
            join([i \in 1..Len(tdef.Cols) |-> StrBytes[tdef.Cols[i]]], 44),
            join([i \in 1..Len(tdef.Indexes[1]) |-> StrBytes[tdef.Indexes[1][i]]], 44)
         >>, 59)

\* json.Unmarshal(def, tdef)
unmarshalDef(def) ==
    LET f == split(def, 59)
        list(x) == split(x, 44)
    IN  [Name |-> BytesStr(f[1]),
         Prefix |-> number(f[2]),
         PKeys |-> number(f[3]),
         Types |-> [i \in 1..Len(list(f[4])) |-> number(list(f[4])[i])],
         Cols |-> [i \in 1..Len(list(f[5])) |-> BytesStr(list(f[5])[i])],
         Indexes |-> << [i \in 1..Len(list(f[6])) |-> BytesStr(list(f[6])[i])] >>]

\* binary.LittleEndian.PutUint32 for a counter below 2^24
putUint32LE(n) == <<n % 256, (n \div 256) % 256, (n \div 65536) % 256, 0>>

\* binary.LittleEndian.Uint32 for a counter below 2^24
uint32LE(b) == b[1] + b[2] * 256 + b[3] * 65536

tableDefCheck(tdef) ==
    IF \/ tdef.Name = ""
       \/ Len(tdef.Cols) = 0
       \/ Len(tdef.Cols) # Len(tdef.Types)
       \/ ~(1 <= tdef.PKeys /\ tdef.PKeys <= Len(tdef.Cols))
    THEN Err("bad table schema", tdef.Name)
    ELSE NoErr

(***************************************************************************)
(* Table layer: Scanner, dbScan, dbGet, dbUpdate, dbDelete, TableNew.      *)
(***************************************************************************)

\* a Scanner as the caller builds it: the comparators and the two bounds
NewScanner(cmp1, cmp2, key1, key2) ==
    [Cmp1 |-> cmp1, Cmp2 |-> cmp2, Key1 |-> key1, Key2 |-> key2,
     tdef |-> NoTdef, iter |-> NoIter, keyEnd |-> <<>>]

\* Scanner.Valid
scValid(store, s) ==
    IF ~s.iter.valid THEN FALSE
    ELSE cmpOk(iterDeref(store, s.iter).key, s.Cmp2, s.keyEnd)

\* Scanner.Next
scNext(store, s) ==
    [s EXCEPT !.iter = IF s.Cmp1 > 0 THEN iterNext(store, s.iter)
                       ELSE iterPrev(store, s.iter)]

\* Scanner.Deref: the record it leaves in rec
scDeref(store, s) ==
    LET e == iterDeref(store, s.iter)
        slots == [i \in 1..Len(s.tdef.Types) |-> TypedValue(s.tdef.Types[i])]
    IN  [Cols |-> s.tdef.Cols,
         Vals |-> decodeKey(e.key, SubSeq(slots, 1, s.tdef.PKeys)).vals
                  \o decodeValues(e.val,
                         SubSeq(slots, s.tdef.PKeys + 1, Len(slots))).vals]

\* mutant: any two comparators are taken
rangeOk_any(cmp1, cmp2) == TRUE

\* mutant: a comparator of zero passes the switch
rangeOk_zero(cmp1, cmp2) == (cmp1 >= 0 /\ cmp2 <= 0) \/ (cmp1 <= 0 /\ cmp2 >= 0)

\* the switch at the top of dbScan
rangeOk(cmp1, cmp2) == (cmp1 > 0 /\ cmp2 < 0) \/ (cmp1 < 0 /\ cmp2 > 0)

\* mutant: the seek is always inclusive
seekStart_incl(store, keyStart, cmp1) ==
    kvSeek(store, keyStart, IF cmp1 > 0 THEN CMP_GE ELSE CMP_LE)

\* db.kv.tree.Seek(keyStart, req.Cmp1)
seekStart(store, keyStart, cmp1) == kvSeek(store, keyStart, cmp1)

dbScan(store, tdef, req) ==
    IF ~rangeOk(req.Cmp1, req.Cmp2)
    THEN [err |-> Err("bad range", ""), sc |-> req]
    ELSE With([req EXCEPT !.tdef = tdef], LAMBDA r1 :
         With(checkRecord(tdef, req.Key1, tdef.PKeys), LAMBDA v1 :
             IF v1.err # NoErr THEN [err |-> v1.err, sc |-> r1]
             ELSE With(checkRecord(tdef, req.Key2, tdef.PKeys), LAMBDA v2 :
                 IF v2.err # NoErr THEN [err |-> v2.err, sc |-> r1]
                 ELSE LET keyStart == encodeKey(<<>>, tdef.Prefix,
                                                SubSeq(v1.vals, 1, tdef.PKeys))
                          keyEnd   == encodeKey(<<>>, tdef.Prefix,
                                                SubSeq(v2.vals, 1, tdef.PKeys))
                      IN  [err |-> NoErr,
                           sc  |-> [r1 EXCEPT !.keyEnd = keyEnd,
                                              !.iter = seekStart(store, keyStart,
                                                                 req.Cmp1)]])))

\* the result: found, the error, and rec as the call leaves it
dbGet(store, tdef, rec) ==
    With(getValues(tdef, rec, tdef.Indexes[1]), LAMBDA g :
        IF g.err # NoErr THEN [ok |-> FALSE, err |-> g.err, rec |-> rec]
        ELSE With(dbScan(store, tdef,
                         NewScanner(CMP_GE, CMP_LE,
                                    [Cols |-> tdef.Indexes[1], Vals |-> g.vals],
                                    [Cols |-> tdef.Indexes[1], Vals |-> g.vals])),
                  LAMBDA s :
                 IF s.err # NoErr \/ ~scValid(store, s.sc)
                 THEN [ok |-> FALSE, err |-> s.err, rec |-> rec]
                 ELSE [ok |-> TRUE, err |-> NoErr, rec |-> scDeref(store, s.sc)]))

getTableDefDB(store, name) ==
    With(dbGet(store, TDEF_TABLE, AddStr(EmptyRecord, "name", StrBytes[name])),
         LAMBDA g :
        IF ~g.ok THEN NoTdef
        ELSE unmarshalDef(g.rec.Vals[recIndex(g.rec, "def")].Str))

\* the result: the TableDef (NoTdef for nil) and the cache afterwards
getTableDef(store, cache, name) ==
    IF name \in DOMAIN INTERNAL_TABLES
    THEN [tdef |-> INTERNAL_TABLES[name], tables |-> cache]
    ELSE IF name \in DOMAIN cache
    THEN [tdef |-> cache[name], tables |-> cache]
    ELSE With(getTableDefDB(store, name), LAMBDA tdef :
             IF tdef # NoTdef
             THEN [tdef |-> tdef,
                   tables |-> [n \in (DOMAIN cache) \cup {name} |->
                                  IF n = name THEN tdef ELSE cache[n]]]
             ELSE [tdef |-> NoTdef, tables |-> cache])

\* the result: the store afterwards, the returned bool and error, and the
\* Added and Updated fields of the request
dbUpdate(store, tdef, rec, mode) ==
    With(checkRecord(tdef, rec, Len(tdef.Cols)), LAMBDA c :
        IF c.err # NoErr
        THEN [kv |-> store, ret |-> FALSE, err |-> c.err,
              Added |-> FALSE, Updated |-> FALSE]
        ELSE LET key == encodeKey(<<>>, tdef.Prefix, SubSeq(c.vals, 1, tdef.PKeys))
                 val == encodeValues(<<>>, SubSeq(c.vals, tdef.PKeys + 1, Len(c.vals)))
             IN  With(kvUpdate(store, key, val, mode), LAMBDA u :
                     [kv |-> u.kv, ret |-> u.Updated, err |-> NoErr,
                      Added |-> u.Added, Updated |-> u.Updated]))

\* mutant: the key is deleted before the record is checked for completeness
dbDelete_eager(store, tdef, rec) ==
    With(reorderRecord(tdef, rec), LAMBDA r :
        IF r.err # NoErr \/ \E i \in 1..tdef.PKeys : r.vals[i].Type = 0
        THEN [kv |-> store, ret |-> FALSE, err |-> checkRecord(tdef, rec, tdef.PKeys).err]
        ELSE With(kvDel(store, encodeKey(<<>>, tdef.Prefix,
                                         SubSeq(r.vals, 1, tdef.PKeys))),
                  LAMBDA d : [kv |-> d.kv, ret |-> d.ok,
                              err |-> checkRecord(tdef, rec, tdef.PKeys).err]))

dbDelete(store, tdef, rec) ==
    With(checkRecord(tdef, rec, tdef.PKeys), LAMBDA c :
        IF c.err # NoErr THEN [kv |-> store, ret |-> FALSE, err |-> c.err]
        ELSE With(kvDel(store, encodeKey(<<>>, tdef.Prefix,
                                         SubSeq(c.vals, 1, tdef.PKeys))),
                  LAMBDA d : [kv |-> d.kv, ret |-> d.ok, err |-> NoErr]))

\* mutant: the counter is written back as it was read
nextPrefix_same(prefix) == prefix

\* tdef.Prefix + 1, the value TableNew writes back under next_prefix
nextPrefix(prefix) == prefix + 1

\* mutant: the lookup in @table is skipped
tableExists_never(store, name) == FALSE

\* TableNew's lookup of the name in @table
tableExists(store, name) ==
    dbGet(store, TDEF_TABLE, AddStr(EmptyRecord, "name", StrBytes[name])).ok

\* the result: the store afterwards, the error, and the Prefix left in tdef.
\* The asserts hold for every call made here and are left out: dbGet on an
\* internal table returns no error, the definitions come with Prefix = 0,
\* and a counter that is stored is above TABLE_PREFIX_MIN.
tableNew(store, tdef) ==
    IF tableDefCheck(tdef) # NoErr
    THEN [kv |-> store, err |-> tableDefCheck(tdef), prefix |-> tdef.Prefix]
    ELSE IF tableExists(store, tdef.Name)
    THEN [kv |-> store, err |-> Err("table exists", tdef.Name), prefix |-> tdef.Prefix]
    ELSE With(dbGet(store, TDEF_META,
                    AddStr(EmptyRecord, "key", StrBytes["next_prefix"])),
              LAMBDA m :
         With(IF m.ok THEN uint32LE(m.rec.Vals[recIndex(m.rec, "val")].Str)
              ELSE TABLE_PREFIX_MIN,
              LAMBDA prefix :
         LET table == AddStr(EmptyRecord, "name", StrBytes[tdef.Name])
             meta1 == IF m.ok THEN m.rec
                      ELSE AddStr(AddStr(EmptyRecord, "key", StrBytes["next_prefix"]),
                                  "val", <<0, 0, 0, 0>>)
             meta2 == [meta1 EXCEPT !.Vals[recIndex(meta1, "val")].Str =
                                        putUint32LE(nextPrefix(prefix))]
             val == marshalDef([tdef EXCEPT !.Prefix = prefix])
         IN  With(dbUpdate(store, TDEF_META, meta2, MODE_UPSERT), LAMBDA u1 :
                 IF u1.err # NoErr
                 THEN [kv |-> u1.kv, err |-> u1.err, prefix |-> prefix]
                 ELSE With(dbUpdate(u1.kv, TDEF_TABLE, AddStr(table, "def", val),
                                    MODE_UPSERT),
                           LAMBDA u2 :
                          [kv |-> u2.kv, err |-> u2.err, prefix |-> prefix]))))

\* DB.Set: the schema lookup, then dbUpdate
dbSet(store, cache, table, rec, mode) ==
    With(getTableDef(store, cache, table), LAMBDA t :
        IF t.tdef = NoTdef
        THEN [kv |-> store, tables |-> t.tables, ret |-> FALSE,
              err |-> Err("table not found", table)]
        ELSE With(dbUpdate(store, t.tdef, rec, mode), LAMBDA u :
                 [kv |-> u.kv, tables |-> t.tables, ret |-> u.ret, err |-> u.err]))

\* mutant: Insert overwrites
Insert_upsert(store, cache, table, rec) == dbSet(store, cache, table, rec, MODE_UPSERT)

Insert(store, cache, table, rec) == dbSet(store, cache, table, rec, MODE_INSERT_ONLY)

\* mutant: Update creates the row
Update_upsert(store, cache, table, rec) == dbSet(store, cache, table, rec, MODE_UPSERT)

Update(store, cache, table, rec) == dbSet(store, cache, table, rec, MODE_UPDATE_ONLY)

Upsert(store, cache, table, rec) == dbSet(store, cache, table, rec, MODE_UPSERT)

\* DB.Delete
Delete(store, cache, table, rec) ==
    With(getTableDef(store, cache, table), LAMBDA t :
        IF t.tdef = NoTdef
        THEN [kv |-> store, tables |-> t.tables, ret |-> FALSE,
              err |-> Err("table not found", table)]
        ELSE With(dbDelete(store, t.tdef, rec), LAMBDA d :
                 [kv |-> d.kv, tables |-> t.tables, ret |-> d.ret, err |-> d.err]))

\* DB.Get
Get(store, cache, table, rec) ==
    With(getTableDef(store, cache, table), LAMBDA t :
        IF t.tdef = NoTdef
        THEN [tables |-> t.tables, ok |-> FALSE,
              err |-> Err("table not found", table), rec |-> rec]
        ELSE With(dbGet(store, t.tdef, rec), LAMBDA g :
                 [tables |-> t.tables, ok |-> g.ok, err |-> g.err, rec |-> g.rec]))

\* DB.Scan
Scan(store, cache, table, req) ==
    With(getTableDef(store, cache, table), LAMBDA t :
        IF t.tdef = NoTdef
        THEN [tables |-> t.tables, err |-> Err("table not found", table), sc |-> req]
        ELSE With(dbScan(store, t.tdef, req), LAMBDA s :
                 [tables |-> t.tables, err |-> s.err, sc |-> s.sc]))

(***************************************************************************)
(* Table layer: the arguments of the calls.  Two programs are modelled:    *)
(* one that creates tables and reads and writes single rows (SpecDB), and  *)
(* one that fills tables and scans them (SpecScan).                        *)
(***************************************************************************)

\* the table names the callers use
Names == {"a", "b"}

\* a table keyed by an INT64 column, and one keyed by a BYTES column
ShapeInt(name) ==
    [Name |-> name, Types |-> <<TYPE_INT64, TYPE_BYTES>>, Cols |-> <<"id", "v">>,
     PKeys |-> 1, Prefix |-> 0, Indexes |-> << <<"id">> >>]

ShapeStr(name) ==
    [Name |-> name, Types |-> <<TYPE_BYTES, TYPE_INT64>>, Cols |-> <<"k", "n">>,
     PKeys |-> 1, Prefix |-> 0, Indexes |-> << <<"k">> >>]

\* the definitions handed to TableNew: well-formed ones, and malformed ones
\* (no primary key, too many key columns, no columns, a type missing, no name)
GoodDefs == {ShapeInt("a"), ShapeInt("b"), ShapeStr("b")}

\* SpecTables: a third table
MoreDefs == {ShapeStr("c")}

BadDefs ==
    {[ShapeInt(n) EXCEPT !.PKeys = 0] : n \in Names}
    \cup {[ShapeInt("a") EXCEPT !.PKeys = 3],
          [ShapeInt("a") EXCEPT !.Cols = <<>>, !.Types = <<>>],
          [ShapeInt("b") EXCEPT !.Types = <<TYPE_INT64>>],
          ShapeInt("")}

IntRow(i, s) == AddStr(AddInt64(EmptyRecord, "id", i), "v", s)

StrRow(k, n) == AddInt64(AddStr(EmptyRecord, "k", k), "n", n)

IntPK(i) == AddInt64(EmptyRecord, "id", i)

StrPK(k) == AddStr(EmptyRecord, "k", k)

\* a full row with the columns in the other order, a row without its key,
\* a key of the wrong type with and without the value column
OddRecs ==
    {AddInt64(AddStr(EmptyRecord, "v", <<0, 1, 7>>), "id", 2),
     AddStr(EmptyRecord, "v", <<>>),
     AddStr(AddStr(EmptyRecord, "id", <<2>>), "v", <<>>),
     AddStr(EmptyRecord, "id", <<2>>)}

\* SpecDB: the records written, and the records read and deleted
WriteRecs ==
    {IntRow(i, s) : i \in {-1, 2}, s \in {<<>>, <<0, 1, 7>>}}
    \cup {StrRow(k, n) : k \in {<<>>, <<0>>}, n \in {-2}}
    \cup OddRecs \cup {IntPK(2)}

KeyRecs ==
    {IntPK(i) : i \in {-1, 2}} \cup {StrPK(k) : k \in {<<>>, <<0>>}}
    \cup OddRecs \cup {IntRow(2, <<>>), AddInt64(IntPK(2), "v", 1)}

\* SpecScan: the rows the tables are filled with
FillRecs ==
    [n \in Names |->
        IF n = "a" THEN {IntRow(i, <<>>) : i \in {-1, 1, 2, 3, 5}}
        ELSE {IntRow(2, <<0, 1, 7>>), StrRow(<<>>, -2), StrRow(<<1>>, -2)}]

FillKeys ==
    [n \in Names |->
        IF n = "a" THEN {IntPK(i) : i \in {-1, 1, 2, 3, 5}}
        ELSE {IntPK(2), StrPK(<<>>), StrPK(<<1>>)}]

\* SpecTables: one row for each shape of table
TableRecs == {IntRow(2, <<0, 1, 7>>), StrRow(<<0>>, -2)}

TableKeys == {IntPK(2), StrPK(<<0>>)}

\* SpecTables: a row of @meta that a caller writes itself, the internal
\* tables being open to every call by name: the counter, set back to 101
MetaRecs ==
    {AddStr(AddStr(EmptyRecord, "key", StrBytes["next_prefix"]), "val",
            putUint32LE(TABLE_PREFIX_MIN + 1))}

\* SpecIso: rows with one key for tables of both shapes, their keys, and
\* the keys of the rows of @table
IsoRecs == {IntRow(2, <<>>), IntRow(2, <<0, 1, 7>>), StrRow(<<0>>, -2)}

IsoKeys == {IntPK(2), StrPK(<<0>>)}

IsoSchemaKeys == {AddStr(EmptyRecord, "name", StrBytes[n]) : n \in Names}

Cmps == {CMP_GE, CMP_GT, CMP_LT, CMP_LE}

\* the bounds of a scan: keys in and between the stored ones
ScanInts == {0, 2, 5}

ScanStrs == {<<>>, <<1>>}

\* scans with a comparator left at zero, and one with two comparators of one
\* sign and a bound without its key
ZeroScans ==
    {NewScanner(0, CMP_LE, IntPK(2), IntPK(5)),
     NewScanner(CMP_GE, 0, IntPK(2), IntPK(5)),
     NewScanner(0, 0, IntPK(2), IntPK(5)),
     NewScanner(CMP_LT, CMP_LE, AddStr(EmptyRecord, "v", <<>>), IntPK(5))}

\* SpecScan: every opposing pair of comparators over the INT64 bounds, every
\* pair of comparators over one pair of INT64 bounds, the inclusive pairs
\* over the BYTES bounds, and bounds that are no key of the table
ScanReqs ==
    {NewScanner(c[1], c[2], IntPK(i), IntPK(j)) :
        c \in {p \in Cmps \X Cmps : rangeOk(p[1], p[2])},
        i \in ScanInts, j \in ScanInts}
    \cup {NewScanner(c1, c2, IntPK(2), IntPK(5)) : c1 \in Cmps, c2 \in Cmps}
    \cup {NewScanner(c[1], c[2], StrPK(i), StrPK(j)) :
        c \in {<<CMP_GE, CMP_LE>>, <<CMP_LE, CMP_GE>>},
        i \in ScanStrs, j \in ScanStrs}
    \cup {NewScanner(CMP_GE, CMP_LE, AddStr(EmptyRecord, "v", <<>>), IntPK(5)),
          NewScanner(CMP_LE, CMP_GE, IntPK(5), AddStr(EmptyRecord, "id", <<2>>))}
    \cup ZeroScans \cup {NewScanner(CMP_GE, CMP_LE, IntPK(2), IntRow(5, <<>>))}

\* SpecDB: a few scans, good and bad
FewScans ==
    {NewScanner(CMP_GE, CMP_LE, IntPK(-1), IntPK(2)),
     NewScanner(CMP_GE, CMP_GE, IntPK(-1), IntPK(2)),
     NewScanner(CMP_GT, CMP_LT, IntPK(2), IntRow(2, <<>>)),
     NewScanner(CMP_LE, CMP_GE, AddStr(EmptyRecord, "id", <<2>>), IntPK(2))}

(***************************************************************************)
(* What the callers' writes amount to, kept beside the store: reg lists    *)
(* the tables created, in order, with the prefix each was given; rows maps *)
(* a table name to its rows, each a sequence of Values in schema order.    *)
(***************************************************************************)

\* a definition TableNew may register
WellShaped(def) ==
    /\ def.Name # ""
    /\ Len(def.Cols) > 0
    /\ Len(def.Cols) = Len(def.Types)
    /\ def.PKeys \in 1..Len(def.Cols)

IsReg(name) == \E i \in 1..Len(reg) : reg[i].Name = name

RegDef(name) == reg[CHOOSE i \in 1..Len(reg) : reg[i].Name = name]

\* rec names the first n columns of def, rightly typed, and no other column
\* of def
WellFormed(def, rec, n) ==
    \A i \in 1..Len(def.Cols) :
        IF i <= n
        THEN /\ recIndex(rec, def.Cols[i]) # 0
             /\ rec.Vals[recIndex(rec, def.Cols[i])].Type = def.Types[i]
        ELSE recIndex(rec, def.Cols[i]) = 0

\* rec holds the primary key of def, rightly typed
HoldsKey(def, rec) ==
    \A i \in 1..def.PKeys :
        /\ recIndex(rec, def.Cols[i]) # 0
        /\ rec.Vals[recIndex(rec, def.Cols[i])].Type = def.Types[i]

\* the columns of def that rec holds, in schema order
InOrder(def, rec, n) == [i \in 1..n |-> rec.Vals[recIndex(rec, def.Cols[i])]]

KeyOf(def, row) == SubSeq(row, 1, def.PKeys)

\* the rows of table name with the primary key that rec holds
RowsAt(name, rec) ==
    {r \in rows[name] :
        KeyOf(RegDef(name), r) = InOrder(RegDef(name), rec, RegDef(name).PKeys)}

\* the rows after a write of rec to table name in the given mode
RowsAfterWrite(name, rec, mode) ==
    IF ~IsReg(name) \/ ~WellFormed(RegDef(name), rec, Len(RegDef(name).Cols))
    THEN rows
    ELSE LET has == RowsAt(name, rec) # {}
             apply == (mode = "Upsert") \/ (mode = "Insert" /\ ~has)
                                        \/ (mode = "Update" /\ has)
         IN  IF ~apply THEN rows
             ELSE [rows EXCEPT ![name] =
                      (@ \ RowsAt(name, rec))
                      \cup {InOrder(RegDef(name), rec, Len(RegDef(name).Cols))}]

\* the rows after a Delete of rec from table name
RowsAfterDelete(name, rec) ==
    IF ~IsReg(name) \/ ~WellFormed(RegDef(name), rec, RegDef(name).PKeys)
    THEN rows
    ELSE [rows EXCEPT ![name] = @ \ RowsAt(name, rec)]

(***************************************************************************)
(* Initial state and the calls, one action each.                           *)
(***************************************************************************)

NoScan == [state |-> "none", table |-> "", s |-> NewScanner(0, 0, EmptyRecord, EmptyRecord),
           out |-> <<>>]

NoRes == [op |-> "init", table |-> "", arg |-> EmptyRecord, ret |-> FALSE,
          err |-> NoErr, out |-> EmptyRecord, def |-> NoTdef]

Result(o, t, a, r, e, out, d) ==
    [op |-> o, table |-> t, arg |-> a, ret |-> r, err |-> e, out |-> out, def |-> d]

\* DB.Open on a new file: an empty store and an empty schema cache
StartDB ==
    /\ kv = <<>>
    /\ tables = <<>>
    /\ sc = NoScan
    /\ res = NoRes
    /\ reg = <<>>
    /\ rows = <<>>
    /\ hands = FALSE

\* an empty list: one allocated node, all sequence numbers zero
StartFL(ph) ==
    /\ phase = ph
    /\ pages = [i \in 1..(NData + 1) |-> IF i <= NData THEN JunkPage ELSE ZeroPage]
    /\ fl = [headPage |-> NData + 1, headSeq |-> 0,
             tailPage |-> NData + 1, tailSeq |-> 0, maxSeq |-> 0]
    /\ abort = FALSE
    /\ owned = 1..NData
    /\ op = "init"
    /\ ret = 0
    /\ taken = 0
    /\ log = <<>>
    /\ pushed = <<>>
    /\ rets = <<>>

\* no run of the codec
NoCod == [st |-> "none"]

InitFL == StartFL("any") /\ StartDB /\ cod = NoCod

InitFifo == StartFL("push") /\ StartDB /\ cod = NoCod

InitDB == StartFL("any") /\ StartDB /\ cod = NoCod

(***************************************************************************)
(* Free list: the calls.                                                   *)
(***************************************************************************)

FLState == [fl |-> fl, pages |-> pages, abort |-> abort]

\* the ids written by one PushTail, in position order
Written(ptr, p) == IF p.head # 0 THEN <<ptr, p.head>> ELSE <<ptr>>

\* the pages the caller holds that were never in the list
NeverFreed == {p \in owned : \A i \in 1..Len(log) : log[i] # p}

\* the never-freed pages are interchangeable: the free interleaving frees
\* them lowest id first (a page PopHead gave back may be freed at any time)
Canonical(ptr) == ptr \in NeverFreed => \A q \in NeverFreed : ptr <= q

\* the caller frees a page it holds
CallPushTail(ptr) ==
    /\ ~abort
    /\ phase \in {"any", "push"}
    /\ ptr \in owned
    /\ phase = "any" => Canonical(ptr)
    /\ fl.tailSeq < MaxSeq
    /\ \E p \in {pushTail([FLState EXCEPT !.pages[ptr] = JunkPage], ptr)} :
           /\ fl' = p.s.fl
           /\ pages' = p.s.pages
           /\ abort' = p.s.abort
           /\ taken' = p.next
           /\ log' = log \o Written(ptr, p)
    /\ owned' = owned \ {ptr}
    /\ op' = "PushTail"
    /\ ret' = 0
    /\ pushed' = IF phase = "push" THEN Append(pushed, ptr) ELSE pushed
    /\ UNCHANGED <<phase, rets, dbvars, cod>>

CallSetMaxSeq ==
    /\ ~abort
    /\ phase \in {"any", "push"}
    /\ fl' = SetMaxSeq(fl)
    /\ op' = "SetMaxSeq"
    /\ ret' = 0
    /\ taken' = 0
    /\ phase' = IF phase = "push" THEN "pop" ELSE phase
    /\ UNCHANGED <<pages, abort, owned, log, pushed, rets, dbvars, cod>>

\* the caller asks for a page to reuse
CallPopHead ==
    /\ ~abort
    /\ phase \in {"any", "pop"}
    /\ fl.tailSeq < MaxSeq
    /\ phase = "pop" => Len(rets) < Len(pushed)
    /\ \E r \in {popHead(FLState)} :
           /\ fl' = r.s.fl
           /\ pages' = r.s.pages
           /\ abort' = r.s.abort
           /\ ret' = r.ptr
           /\ taken' = r.next
           /\ log' = log \o (IF r.head # 0 THEN Written(r.head, [head |-> r.head2])
                             ELSE <<>>)
           /\ owned' = IF r.ptr # 0 /\ ~r.s.abort THEN owned \cup {r.ptr} ELSE owned
           /\ rets' = IF phase = "pop" THEN Append(rets, r.ptr) ELSE rets
    /\ op' = "PopHead"
    /\ UNCHANGED <<phase, pushed, dbvars, cod>>

NextFL ==
    \/ \E ptr \in 1..(NData + 1 + MaxSeq) : CallPushTail(ptr)
    \/ CallSetMaxSeq
    \/ CallPopHead

\* any interleaving of the three calls
SpecFL == InitFL /\ [][NextFL]_vars

\* pushes, then one SetMaxSeq, then as many PopHead calls as there were pushes
SpecFifo == InitFifo /\ [][NextFL]_vars

(***************************************************************************)
(* Table layer: the calls.                                                 *)
(***************************************************************************)

\* the caller holds no result and no Scanner: it may make its next call
Idle == res = NoRes /\ sc = NoScan

DoTableNew(def) ==
    /\ Idle
    /\ \E r \in {tableNew(kv, def)} :
       LET made == WellShaped(def) /\ ~IsReg(def.Name)
       IN  /\ kv' = r.kv
           /\ res' = Result("TableNew", def.Name, EmptyRecord, FALSE, r.err,
                            EmptyRecord, [def EXCEPT !.Prefix = r.prefix])
           /\ reg' = IF made THEN Append(reg, [def EXCEPT !.Prefix = r.prefix]) ELSE reg
           /\ rows' = IF made
                      THEN [n \in (DOMAIN rows) \cup {def.Name} |->
                               IF n = def.Name THEN {} ELSE rows[n]]
                      ELSE rows
    /\ sc' = NoScan
    /\ UNCHANGED <<tables, hands, flvars, cod>>

DoInsert(table, rec) ==
    /\ Idle
    /\ \E r \in {Insert(kv, tables, table, rec)} :
           /\ kv' = r.kv
           /\ tables' = r.tables
           /\ res' = Result("Insert", table, rec, r.ret, r.err, EmptyRecord, NoTdef)
    /\ rows' = RowsAfterWrite(table, rec, "Insert")
    /\ hands' = (hands \/ table \in DOMAIN INTERNAL_TABLES)
    /\ sc' = NoScan
    /\ UNCHANGED <<reg, flvars, cod>>

DoUpdate(table, rec) ==
    /\ Idle
    /\ \E r \in {Update(kv, tables, table, rec)} :
           /\ kv' = r.kv
           /\ tables' = r.tables
           /\ res' = Result("Update", table, rec, r.ret, r.err, EmptyRecord, NoTdef)
    /\ rows' = RowsAfterWrite(table, rec, "Update")
    /\ hands' = (hands \/ table \in DOMAIN INTERNAL_TABLES)
    /\ sc' = NoScan
    /\ UNCHANGED <<reg, flvars, cod>>

DoUpsert(table, rec) ==
    /\ Idle
    /\ \E r \in {Upsert(kv, tables, table, rec)} :
           /\ kv' = r.kv
           /\ tables' = r.tables
           /\ res' = Result("Upsert", table, rec, r.ret, r.err, EmptyRecord, NoTdef)
    /\ rows' = RowsAfterWrite(table, rec, "Upsert")
    /\ hands' = (hands \/ table \in DOMAIN INTERNAL_TABLES)
    /\ sc' = NoScan
    /\ UNCHANGED <<reg, flvars, cod>>

DoDelete(table, rec) ==
    /\ Idle
    /\ \E r \in {Delete(kv, tables, table, rec)} :
           /\ kv' = r.kv
           /\ tables' = r.tables
           /\ res' = Result("Delete", table, rec, r.ret, r.err, EmptyRecord, NoTdef)
    /\ rows' = RowsAfterDelete(table, rec)
    /\ hands' = (hands \/ table \in DOMAIN INTERNAL_TABLES)
    /\ sc' = NoScan
    /\ UNCHANGED <<reg, flvars, cod>>

DoGet(table, rec) ==
    /\ Idle
    /\ \E r \in {Get(kv, tables, table, rec)} :
           /\ tables' = r.tables
           /\ res' = Result("Get", table, rec, r.ok, r.err, r.rec, NoTdef)
    /\ sc' = NoScan
    /\ UNCHANGED <<kv, reg, rows, hands, flvars, cod>>

DoScan(table, req) ==
    /\ Idle
    /\ \E r \in {Scan(kv, tables, table, req)} :
           /\ tables' = r.tables
           /\ res' = Result("Scan", table, EmptyRecord, FALSE, r.err, EmptyRecord, NoTdef)
           /\ sc' = [state |-> IF r.err = NoErr THEN "open" ELSE "none",
                     table |-> table, s |-> r.sc, out |-> <<>>]
    /\ UNCHANGED <<kv, reg, rows, hands, flvars, cod>>

\* one turn of the caller's loop: while sc.Valid() { sc.Deref(&rec); sc.Next() }
ScanStep ==
    /\ sc.state = "open"
    /\ sc' = IF scValid(kv, sc.s)
             THEN [sc EXCEPT !.out = Append(@, scDeref(kv, sc.s)),
                             !.s = scNext(kv, sc.s)]
             ELSE [sc EXCEPT !.state = "done"]
    /\ UNCHANGED <<kv, tables, res, reg, rows, hands, flvars, cod>>

\* the caller is done with the result of its call, and with its Scanner
Done ==
    /\ res # NoRes
    /\ sc.state # "open"
    /\ res' = NoRes
    /\ sc' = NoScan
    /\ UNCHANGED <<kv, tables, reg, rows, hands, flvars, cod>>

NextDB ==
    \/ \E def \in GoodDefs \cup BadDefs : DoTableNew(def)
    \/ \E table \in Names, rec \in WriteRecs : DoInsert(table, rec)
    \/ \E table \in Names, rec \in WriteRecs : DoUpdate(table, rec)
    \/ \E table \in Names, rec \in WriteRecs : DoUpsert(table, rec)
    \/ \E table \in Names, rec \in KeyRecs : DoDelete(table, rec)
    \/ \E table \in Names, rec \in KeyRecs : DoGet(table, rec)
    \/ \E table \in Names, req \in FewScans : DoScan(table, req)
    \/ ScanStep
    \/ Done

NextScan ==
    \/ \E def \in GoodDefs : DoTableNew(def)
    \/ \E table \in Names : \E rec \in FillRecs[table] : DoUpsert(table, rec)
    \/ \E table \in Names : \E rec \in FillKeys[table] : DoDelete(table, rec)
    \/ \E table \in Names, req \in ScanReqs : DoScan(table, req)
    \/ ScanStep
    \/ Done

NextTables ==
    \/ \E def \in GoodDefs \cup MoreDefs \cup BadDefs : DoTableNew(def)
    \/ \E table \in Names, rec \in TableRecs : DoUpsert(table, rec)
    \/ \E table \in Names, rec \in TableKeys : DoDelete(table, rec)
    \/ \E rec \in MetaRecs : DoUpsert("@meta", rec)
    \/ Done

\* once, a caller may delete a row of @table, open to every call by name
NextIso ==
    \/ \E def \in GoodDefs : DoTableNew(def)
    \/ \E table \in Names, rec \in IsoRecs : DoInsert(table, rec)
    \/ \E table \in Names, rec \in IsoRecs : DoUpdate(table, rec)
    \/ \E table \in Names, rec \in IsoRecs : DoUpsert(table, rec)
    \/ \E table \in Names, rec \in IsoKeys : DoDelete(table, rec)
    \/ \E table \in Names, rec \in IsoKeys : DoGet(table, rec)
    \/ ~hands /\ \E rec \in IsoSchemaKeys : DoDelete("@table", rec)
    \/ Done

\* creating tables, and writing and reading single rows
SpecDB == InitDB /\ [][NextDB]_vars

\* filling tables and scanning them
SpecScan == InitDB /\ [][NextScan]_vars

\* two tables that may hold the same key, every kind of write, and a caller
\* that may delete a schema from @table itself
SpecIso == InitDB /\ [][NextIso]_vars

\* creating up to three tables, with rows coming and going in two of them,
\* and a caller that may set the counter in @meta itself
SpecTables == InitDB /\ [][NextTables]_vars

(***************************************************************************)
(* The codec on its own: values in, bytes out, values back.                *)
(***************************************************************************)

\* the bytes the strings are made of: the two escaped bytes and the first
\* byte that is not escaped
CodecBytes == {0, 1, 2}

RECURSIVE StrsUpTo(_)
\* the byte strings of length at most n
StrsUpTo(n) ==
    IF n = 0 THEN {<<>>}
    ELSE StrsUpTo(n - 1)
         \cup {Append(s, c) : s \in StrsUpTo(n - 1), c \in CodecBytes}

\* the ends of the 32-bit range, both sides of zero, and a value with a
\* zero low byte
CodecInts == {-2147483647, -1, 0, 256, 2147483647}

\* the values of a first column, and the values of a later column
CodecVals ==
    {Int64Value(i) : i \in CodecInts} \cup {BytesValue(s) : s \in StrsUpTo(MaxStrLen)}

LaterVals ==
    {Int64Value(i) : i \in CodecInts} \cup {BytesValue(s) : s \in StrsUpTo(1)}

\* the value sequences handed to encodeValues: none, one, or two values
CodecSeqs ==
    {<<>>} \cup {<<v>> : v \in CodecVals}
    \cup {<<v, w>> : v \in CodecVals, w \in LaterVals}

\* four-byte prefixes: zero, the internal tables, a user table, one with
\* zero bytes inside, the largest below 2^31
CodecPrefixes == {0, 1, 2, 100, 65536, 2147483647}

\* the type tags of a value sequence
Tags(vals) == [i \in 1..Len(vals) |-> vals[i].Type]

\* out as the caller of decodeValues prepares it: the tags, nothing else
Slots(vals) == [i \in 1..Len(vals) |-> TypedValue(vals[i].Type)]

\* one sequence and a prefix, to be encoded and decoded
InitCodec ==
    /\ StartFL("any")
    /\ StartDB
    /\ cod \in {[st |-> "in", a |-> a, prefix |-> p] :
                    a \in CodecSeqs, p \in CodecPrefixes}

\* two sequences of one type shape, to be encoded and compared
InitOrder ==
    /\ StartFL("any")
    /\ StartDB
    /\ cod \in {[st |-> "in", a |-> ab[1], b |-> ab[2]] :
                    ab \in {p \in CodecSeqs \X CodecSeqs : Tags(p[1]) = Tags(p[2])}}

\* encodeValues(nil, a) and encodeKey(nil, prefix, a)
EncodeOne ==
    /\ cod.st = "in"
    /\ cod' = [st |-> "enc", a |-> cod.a, prefix |-> cod.prefix,
               ea |-> encodeValues(<<>>, cod.a),
               ka |-> encodeKey(<<>>, cod.prefix, cod.a)]
    /\ UNCHANGED <<flvars, dbvars>>

\* decodeValues(ea, out) and decodeKey(ka, out), out tagged as a
DecodeOne ==
    /\ cod.st = "enc"
    /\ cod' = [st |-> "dec", a |-> cod.a, prefix |-> cod.prefix,
               ea |-> cod.ea, ka |-> cod.ka,
               da |-> decodeValues(cod.ea, Slots(cod.a)),
               dk |-> decodeKey(cod.ka, Slots(cod.a))]
    /\ UNCHANGED <<flvars, dbvars>>

\* encodeValues(nil, a) and encodeValues(nil, b)
EncodeTwo ==
    /\ cod.st = "in"
    /\ cod' = [st |-> "enc", a |-> cod.a, b |-> cod.b,
               ea |-> encodeValues(<<>>, cod.a),
               eb |-> encodeValues(<<>>, cod.b)]
    /\ UNCHANGED <<flvars, dbvars>>

NextCodec == EncodeOne \/ DecodeOne

NextOrder == EncodeTwo

\* every sequence with every prefix: encode, then decode
SpecCodec == InitCodec /\ [][NextCodec]_vars

\* every pair of sequences of one shape: encode both
SpecOrder == InitOrder /\ [][NextOrder]_vars

(***************************************************************************)
(* Free list: derived views used by the properties.                        *)
(***************************************************************************)

RECURSIVE chainFrom(_, _, _)
\* the nodes from page p along the next pointers up to tailPage
chainFrom(p, f, pg) ==
    IF p = f.tailPage \/ p \notin DOMAIN pg THEN {p}
    ELSE {p} \cup chainFrom(getNext(pg[p]), f, pg)

\* the pages that are nodes of the list right now
ChainNodes == chainFrom(fl.headPage, fl, pages)

\* the ids stored at positions at or beyond the watermark
LateIds == {log[i] : i \in (fl.maxSeq + 1)..fl.tailSeq}

Zeros(n) == [i \in 1..n |-> 0]

\* the push-then-pop run is over: M pushes, SetMaxSeq, M pops, M > capacity
FifoDone ==
    /\ phase = "pop"
    /\ Len(pushed) > FREE_LIST_CAP
    /\ Len(rets) = Len(pushed)

NotNode(id) == id \notin ChainNodes

\* C1 as stated: after pushing M > capacity ids, SetMaxSeq and M PopHead
\* calls, the calls returned exactly the pushed ids in push order.
FifoExact == FifoDone => rets = pushed

\* C1 amended: the M PopHead calls return the pushed ids in push order, each
\* at most once, leaving out exactly the ids that PushTail took from the head
\* as new tail nodes (these are nodes of the chain afterwards); for each id
\* left out, one more PopHead at the end returns 0.
FifoUpToNodes ==
    FifoDone =>
        LET kept == SelectSeq(pushed, NotNode)
        IN  rets = kept \o Zeros(Len(pushed) - Len(kept))

\* a finished run in which an id was taken as a tail node
FifoWitness == FifoDone /\ ~abort /\ rets[Len(rets)] = 0 /\ rets[1] # 0

\* C2: the id PopHead returned, and the id a PushTail (called directly or
\* from within PopHead) took from the head as its new tail node, is never
\* an id stored at a position at or beyond maxSeq.
WatermarkBarrier ==
    /\ ret # 0 => ret \notin LateIds
    /\ taken # 0 => taken \notin LateIds

\* PopHead was called with entries waiting beyond the watermark, returned
\* nothing, and took nothing
WatermarkWitness ==
    /\ op = "PopHead"
    /\ ret = 0
    /\ taken = 0
    /\ fl.headSeq = fl.maxSeq
    /\ fl.tailSeq > fl.maxSeq + 1
    /\ fl.maxSeq > 0

\* headSeq <= maxSeq <= tailSeq
SeqOrdered == fl.headSeq <= fl.maxSeq /\ fl.maxSeq <= fl.tailSeq

\* C13: headSeq <= maxSeq <= tailSeq in the empty list and after every
\* PushTail, PopHead and SetMaxSeq, and no call decreases headSeq, maxSeq
\* or tailSeq.
SeqInvariant ==
    /\ SeqOrdered
    /\ [][/\ SeqOrdered'
          /\ fl'.headSeq >= fl.headSeq
          /\ fl'.maxSeq >= fl.maxSeq
          /\ fl'.tailSeq >= fl.tailSeq]_vars

\* the three positions apart, the head and the tail beyond the first node
SeqWitness ==
    /\ 0 < fl.headSeq
    /\ fl.headSeq < fl.maxSeq
    /\ fl.maxSeq < fl.tailSeq
    /\ fl.headSeq > FREE_LIST_CAP
    /\ fl.headPage # fl.tailPage

\* C14: a non-zero id that PopHead returns is not a node of the chain from
\* headPage to tailPage as the call leaves it; and when the call moved the
\* head past an exhausted node, that node's id is not the id returned: it
\* was written to the tail slot of the list as the call found it, and
\* tailSeq has grown.
NoNodeReturned ==
    [][(op' = "PopHead" /\ ~abort')
       => /\ ret' # 0 => ret' \notin chainFrom(fl'.headPage, fl', pages')
          /\ fl'.headPage # fl.headPage =>
                 /\ ret' # fl.headPage
                 /\ getPtr(pages'[fl.tailPage], seq2idx(fl.tailSeq)) = fl.headPage
                 /\ fl'.tailSeq > fl.tailSeq]_vars

\* PopHead returned a page of the caller with its last pop from a node,
\* and the id written last is a page the list had allocated for a node
NoNodeWitness ==
    /\ op = "PopHead"
    /\ ret \in 1..NData
    /\ seq2idx(fl.headSeq) = 0
    /\ log[Len(log)] > NData
    /\ log[Len(log)] \notin ChainNodes

\* C17: no call fails the assertion in flPop: whenever the head moved past
\* an exhausted node, the node's next pointer was not zero, and headPage and
\* tailPage are pages of the store.
HeadAdvances ==
    /\ ~abort
    /\ fl.headPage \in 1..Len(pages)
    /\ fl.tailPage \in 1..Len(pages)

\* a PushTail rolled the tail over, and the pop inside it took the last
\* item of a head node and moved the head on
HeadAdvanceWitness ==
    /\ op = "PushTail"
    /\ taken # 0
    /\ seq2idx(fl.headSeq) = 0
    /\ fl.headSeq > 0
    /\ ~abort

\* what a rollover of the tail does in one step, for the PushTail that found
\* the head at position hs in node hp and the tail node one short of full
TailRolled(hs, hp) ==
    LET taking    == hs < fl.maxSeq
        exhausted == taking /\ seq2idx(hs + 1) = 0
    IN  /\ taking =>
              /\ taken' = getPtr(pages[hp], seq2idx(hs))
              /\ taken' # 0
              /\ fl'.tailPage = taken'
              /\ Len(pages') = Len(pages)
        /\ ~taking =>
              /\ taken' = 0
              /\ Len(pages') = Len(pages) + 1
              /\ fl'.tailPage = Len(pages')
              /\ fl'.headSeq = hs
        /\ fl'.tailPage # fl.tailPage
        /\ getNext(pages'[fl.tailPage]) = fl'.tailPage
        /\ exhausted =>
              /\ getPtr(pages'[fl'.tailPage], 0) = hp
              /\ fl'.tailSeq = fl.tailSeq + 2
        /\ ~exhausted => fl'.tailSeq = fl.tailSeq + 1

\* PopHead took the last item of the head node: it calls PushTail
Repush == fl.headSeq < fl.maxSeq /\ seq2idx(fl.headSeq + 1) = 0

\* C18: a PushTail that fills the tail node, called by the caller or by
\* PopHead, takes the new tail node from the head exactly when headSeq <
\* maxSeq at that moment and allocates a fresh page exactly when headSeq =
\* maxSeq; it sets the old tail node's next pointer to the new node; and when
\* the pop inside it exhausted the head node, that node's id is in slot 0 of
\* the new tail node and tailSeq has grown by two, otherwise by one.  A
\* PushTail that does not fill the tail node leaves tailPage alone.
TailRollover ==
    [][/\ (op' = "PushTail" /\ ~abort') =>
            IF seq2idx(fl.tailSeq + 1) = 0
            THEN TailRolled(fl.headSeq, fl.headPage)
            ELSE fl'.tailPage = fl.tailPage /\ fl'.tailSeq = fl.tailSeq + 1
                 /\ taken' = 0
       /\ (op' = "PopHead" /\ ~abort' /\ Repush) =>
            IF seq2idx(fl.tailSeq + 1) = 0
            THEN TailRolled(fl.headSeq + 1, getNext(pages[fl.headPage]))
            ELSE fl'.tailPage = fl.tailPage /\ fl'.tailSeq = fl.tailSeq + 1
                 /\ taken' = 0]_vars

\* a PushTail of the caller rolled the tail over onto a page taken from the
\* head, and the head node that pop exhausted is in slot 0 of the new tail
RolloverWitness ==
    /\ op = "PushTail"
    /\ taken # 0
    /\ fl.tailPage = taken
    /\ seq2idx(fl.tailSeq) = 1
    /\ seq2idx(fl.headSeq) = 0
    /\ getPtr(pages[fl.tailPage], 0) = log[Len(log)]
    /\ log[Len(log)] > NData

RECURSIVE nthNode(_, _)
\* the k-th node after page p along the next pointers
nthNode(p, k) == IF k = 0 THEN p ELSE nthNode(getNext(pages[p]), k - 1)

\* the live positions, and the id stored at each
LivePositions == fl.headSeq..(fl.tailSeq - 1)

LiveSlot(q) ==
    getPtr(pages[nthNode(fl.headPage,
                         (q \div FREE_LIST_CAP) - (fl.headSeq \div FREE_LIST_CAP))],
           seq2idx(q))

\* every id the caller ever pushed or the list ever allocated for a node
EverHeld == {log[i] : i \in 1..Len(log)} \cup (NData + 1)..Len(pages)

\* the number of places an id is in: with the caller, in live slots, in the
\* chain
Places(id) ==
    (IF id \in owned THEN 1 ELSE 0)
    + Cardinality({q \in LivePositions : LiveSlot(q) = id})
    + (IF id \in ChainNodes THEN 1 ELSE 0)

\* each id in one place, and the chain as long as the positions need
Conserved ==
    ~abort =>
        /\ \A id \in EverHeld : Places(id) = 1
        /\ Cardinality(ChainNodes) =
              (fl.tailSeq \div FREE_LIST_CAP) - (fl.headSeq \div FREE_LIST_CAP) + 1
        /\ nthNode(fl.headPage, Cardinality(ChainNodes) - 1) = fl.tailPage

\* C19: every id ever pushed or allocated for a node is in exactly one
\* place: with the caller (returned by PopHead and not pushed since), in
\* exactly one live slot, or a node of the chain; the chain has one node for
\* each node-sized stretch of positions from headSeq to tailSeq, none twice;
\* and PopHead never returns an id the caller already holds.
PageConservation ==
    /\ Conserved
    /\ [][/\ Conserved'
          /\ (op' = "PopHead" /\ ret' # 0) => ret' \notin owned]_vars

\* all three places in use: PopHead returned a page, a page the caller
\* pushed serves as a node, and a page allocated for a node is in a live slot
ConservationWitness ==
    /\ op = "PopHead"
    /\ ret \in owned
    /\ ret \in EverHeld
    /\ \E id \in 1..NData : id \in ChainNodes
    /\ \E q \in LivePositions : LiveSlot(q) > NData

(***************************************************************************)
(* Table layer: the order on keys and the views used by the properties.    *)
(***************************************************************************)

RECURSIVE lexLess(_, _)
\* a before b as byte strings
lexLess(a, b) ==
    IF b = <<>> THEN FALSE
    ELSE IF a = <<>> THEN TRUE
    ELSE IF Head(a) # Head(b) THEN Head(a) < Head(b)
    ELSE lexLess(Tail(a), Tail(b))

\* a before b as values of one column
ValLess(a, b) ==
    IF a.Type = TYPE_INT64 THEN a.I64 < b.I64 ELSE lexLess(a.Str, b.Str)

RECURSIVE KeyLess(_, _)
\* a before b as primary keys, column by column
KeyLess(a, b) ==
    IF a = <<>> THEN FALSE
    ELSE IF Head(a) # Head(b) THEN ValLess(Head(a), Head(b))
    ELSE KeyLess(Tail(a), Tail(b))

\* key satisfies the bound: inclusive for GE and LE, exclusive for GT and LT
Sat(key, cmp, bound) ==
    CASE cmp = CMP_GE -> ~KeyLess(key, bound)
      [] cmp = CMP_GT -> KeyLess(bound, key)
      [] cmp = CMP_LE -> ~KeyLess(bound, key)
      [] cmp = CMP_LT -> KeyLess(key, bound)
      [] OTHER -> FALSE

\* the two comparators point toward each other
Opposed(cmp1, cmp2) == (cmp1 > 0 /\ cmp2 < 0) \/ (cmp1 < 0 /\ cmp2 > 0)

\* the table of the Scanner the caller holds
ScanDef == RegDef(sc.table)

\* the rows of the scanned table whose key satisfies both bounds
InRange ==
    {r \in rows[sc.table] :
        /\ Sat(KeyOf(ScanDef, r), sc.s.Cmp1, InOrder(ScanDef, sc.s.Key1, ScanDef.PKeys))
        /\ Sat(KeyOf(ScanDef, r), sc.s.Cmp2, InOrder(ScanDef, sc.s.Key2, ScanDef.PKeys))}

\* the Scanner asks for keys 2 and 5 with the given comparators, on a
\* registered table with an INT64 key
Scans25(cmp1, cmp2) ==
    /\ res.op = "Scan"
    /\ IsReg(res.table)
    /\ RegDef(res.table).Types[1] = TYPE_INT64
    /\ sc.s.Cmp1 = cmp1 /\ sc.s.Key1 = IntPK(2)
    /\ sc.s.Cmp2 = cmp2 /\ sc.s.Key2 = IntPK(5)

\* the record under next_prefix in @meta
Counter == dbGet(kv, TDEF_META, AddStr(EmptyRecord, "key", StrBytes["next_prefix"]))

\* the errors a caller can recover from
Recoverable ==
    {"table not found", "table exists", "bad table schema",
     "missing column", "extra column", "bad column type", "bad range"}

\* the step is the call op, made by an idle caller
Calls(ops) == res = NoRes /\ res' # NoRes /\ res'.op \in ops

(***************************************************************************)
(* Table layer: the properties.                                            *)
(***************************************************************************)

\* C3: when the loop 'while Valid: Deref; Next' over a Scan has ended, it has
\* yielded exactly the rows of the table whose primary key satisfies both
\* bounds, each once, with all schema columns, in ascending key order when
\* Cmp1 is GE or GT and in descending order when Cmp1 is LE or LT, and Valid
\* is false.
ScanRange ==
    (sc.state = "done" /\ IsReg(sc.table)) =>
        /\ Len(sc.out) = Cardinality(InRange)
        /\ {sc.out[i].Vals : i \in 1..Len(sc.out)} = InRange
        /\ \A i \in 1..Len(sc.out) : sc.out[i].Cols = ScanDef.Cols
        /\ \A i, j \in 1..Len(sc.out) :
               i < j => IF sc.s.Cmp1 > 0
                        THEN KeyLess(KeyOf(ScanDef, sc.out[i].Vals),
                                     KeyOf(ScanDef, sc.out[j].Vals))
                        ELSE KeyLess(KeyOf(ScanDef, sc.out[j].Vals),
                                     KeyOf(ScanDef, sc.out[i].Vals))
        /\ ~scValid(kv, sc.s)

\* keys {1,2,3,5}, the inclusive range [2,5] ascending, the result 2,3,5,
\* with a second table holding rows beside the scanned one
ScanWitness ==
    /\ sc.state = "done"
    /\ sc.table = "a"
    /\ Len(reg) = 2
    /\ rows["b"] # {}
    /\ {r[1].I64 : r \in rows["a"]} = {1, 2, 3, 5}
    /\ sc.s.Cmp1 = CMP_GE /\ sc.s.Key1 = IntPK(2)
    /\ sc.s.Cmp2 = CMP_LE /\ sc.s.Key2 = IntPK(5)
    /\ [i \in 1..Len(sc.out) |-> sc.out[i].Vals[1].I64] = <<2, 3, 5>>

\* C4 as stated: a Scan with Cmp1 = LE on Key1 = 2 and Cmp2 = GE on Key2 = 5
\* returns 'bad range' and positions no iterator.
ReversedRejected ==
    Scans25(CMP_LE, CMP_GE) => res.err.msg = "bad range" /\ sc.s.iter = NoIter

\* C4 amended: Scan with bounds 2 and 5 returns 'bad range', and positions no
\* iterator, exactly when the comparators do not point toward each other;
\* with Cmp1 = LE on 2 and Cmp2 = GE on 5 it returns no error, the iterator
\* is positioned, and the scan yields no row.
ReversedIsEmptyScan ==
    /\ \A c1, c2 \in Cmps :
           Scans25(c1, c2) =>
               IF Opposed(c1, c2)
               THEN res.err = NoErr /\ sc.state \in {"open", "done"}
               ELSE /\ res.err.msg = "bad range"
                    /\ sc.s.iter = NoIter
                    /\ sc.state = "none"
    /\ Scans25(CMP_LE, CMP_GE) =>
           /\ sc.s.iter.valid
           /\ ~scValid(kv, sc.s)
           /\ sc.out = <<>>

\* the scan with reversed signs over keys {1,2,3,5} has ended with no row
ReversedWitness ==
    /\ Scans25(CMP_LE, CMP_GE)
    /\ sc.state = "done"
    /\ sc.out = <<>>
    /\ {r[1].I64 : r \in rows[res.table]} = {1, 2, 3, 5}

\* rec names column i of def
Named(def, rec, i) == recIndex(rec, def.Cols[i]) # 0

\* every column of def that rec names has the type of the schema
Typed(def, rec) ==
    \A i \in 1..Len(def.Cols) :
        Named(def, rec, i) => rec.Vals[recIndex(rec, def.Cols[i])].Type = def.Types[i]

\* the errors of checkRecord
RecordErrors == {"missing column", "extra column", "bad column type"}

\* rec is a boundary that dbScan takes: exactly the primary key of def
Boundary(def, rec) == WellFormed(def, rec, def.PKeys)

\* C20: a Scan of a registered table returns 'bad range' exactly when its
\* comparators are not opposed (two of one sign, or one of them zero); with
\* opposed comparators and a boundary record that lacks a key column,
\* carries a non-key column or has a wrongly typed column it returns the
\* error of the record, with no iterator positioned and no end key set; and
\* it returns no error exactly when the comparators are opposed and both
\* boundary records hold exactly the key, so that nothing is left for Valid,
\* Next and Deref to reject.
ScanValidation ==
    (res.op = "Scan" /\ IsReg(res.table)) =>
        LET def  == RegDef(res.table)
            opp  == Opposed(sc.s.Cmp1, sc.s.Cmp2)
            recs == Boundary(def, sc.s.Key1) /\ Boundary(def, sc.s.Key2)
        IN  /\ res.err.msg = "bad range" <=> ~opp
            /\ (opp /\ ~recs) =>
                   /\ res.err.msg \in RecordErrors
                   /\ ~Typed(def, sc.s.Key1) => res.err.msg = "bad column type"
            /\ res.err = NoErr <=> (opp /\ recs)
            /\ res.err # NoErr =>
                   /\ sc.s.iter = NoIter
                   /\ sc.s.keyEnd = <<>>
                   /\ sc.state = "none"
                   /\ sc.out = <<>>
            /\ res.err = NoErr => sc.state \in {"open", "done"}

\* a Scan with opposed comparators over a table with rows, its second bound
\* a full row, returned 'extra column' and positioned nothing
ScanValidationWitness ==
    /\ res.op = "Scan"
    /\ IsReg(res.table)
    /\ rows[res.table] # {}
    /\ Opposed(sc.s.Cmp1, sc.s.Cmp2)
    /\ Boundary(RegDef(res.table), sc.s.Key1)
    /\ res.err.msg = "extra column"
    /\ sc.s.iter = NoIter

\* C5: an Insert whose record holds a primary key that has a row in the
\* table returns false (with or without an error), and leaves every key of
\* the store, and with it the row, as it was.
InsertOnly ==
    [][(/\ Calls({"Insert"})
        /\ IsReg(res'.table)
        /\ HoldsKey(RegDef(res'.table), res'.arg)
        /\ RowsAt(res'.table, res'.arg) # {})
       => (res'.ret = FALSE /\ kv' = kv /\ rows' = rows)]_vars

\* an Insert of a full record with another value for a key that has a row
\* returned false without an error
InsertWitness ==
    /\ res.op = "Insert"
    /\ IsReg(res.table)
    /\ WellFormed(RegDef(res.table), res.arg, Len(RegDef(res.table).Cols))
    /\ RowsAt(res.table, res.arg) # {}
    /\ InOrder(RegDef(res.table), res.arg, Len(RegDef(res.table).Cols))
           \notin rows[res.table]
    /\ res.ret = FALSE
    /\ res.err = NoErr

\* C6: an Update with a fully specified record whose key has no row returns
\* false without an error and leaves the store as it was, and a Get of the
\* key then finds nothing; an Upsert with a fully specified, rightly typed
\* record returns no error, and a Get of the key then finds that record.
UpdateOnlyAndUpsert ==
    [][(/\ Calls({"Update", "Upsert"})
        /\ IsReg(res'.table)
        /\ WellFormed(RegDef(res'.table), res'.arg, Len(RegDef(res'.table).Cols)))
       => IF res'.op = "Update"
          THEN RowsAt(res'.table, res'.arg) = {} =>
                   /\ res'.ret = FALSE
                   /\ res'.err = NoErr
                   /\ kv' = kv
                   /\ ~Get(kv', tables', res'.table, res'.arg).ok
          ELSE /\ res'.err = NoErr
               /\ Get(kv', tables', res'.table, res'.arg).ok
               /\ Get(kv', tables', res'.table, res'.arg).rec =
                      [Cols |-> RegDef(res'.table).Cols,
                       Vals |-> InOrder(RegDef(res'.table), res'.arg,
                                        Len(RegDef(res'.table).Cols))]]_vars

\* an Update of a full record for a key without a row, in a table that holds
\* another row, returned false without an error
UpdateWitness ==
    /\ res.op = "Update"
    /\ IsReg(res.table)
    /\ WellFormed(RegDef(res.table), res.arg, Len(RegDef(res.table).Cols))
    /\ RowsAt(res.table, res.arg) = {}
    /\ rows[res.table] # {}
    /\ res.ret = FALSE
    /\ res.err = NoErr

\* C7: a Get with a record holding the primary key of a registered table
\* returns found exactly when the writes so far leave a row under that key
\* (the last write applied to the key was not a Delete), and then rec holds
\* the schema columns in schema order with the values of that row; a Get
\* that returns not-found leaves rec as it was.
GetAfterWrite ==
    res.op = "Get" =>
        IF IsReg(res.table) /\ HoldsKey(RegDef(res.table), res.arg)
        THEN /\ res.ret <=> RowsAt(res.table, res.arg) # {}
             /\ res.ret => res.out = [Cols |-> RegDef(res.table).Cols,
                                      Vals |-> CHOOSE r \in RowsAt(res.table, res.arg) : TRUE]
             /\ ~res.ret => res.out = res.arg
        ELSE ~res.ret /\ res.out = res.arg

\* a Get by a negative key found a row whose value holds the bytes 0 and 1
GetWitness ==
    /\ res.op = "Get"
    /\ res.ret
    /\ res.arg = IntPK(-1)
    /\ res.out = [Cols |-> <<"id", "v">>,
                  Vals |-> <<Int64Value(-1), BytesValue(<<0, 1, 7>>)>>]

\* C8 as stated: TableNew with a registered name returns 'table exists' and
\* leaves the store as it was.
ExistsAlways ==
    [][(Calls({"TableNew"}) /\ IsReg(res'.table))
       => (res'.err.msg = "table exists" /\ kv' = kv)]_vars

\* C8 amended: TableNew with a registered name fails, with 'table exists'
\* when the definition passes the shape check and with 'bad table schema'
\* when it does not, and leaves every key of the store (the persisted
\* definitions with their prefixes, the next_prefix counter) as it was.
ExistsOrBadSchema ==
    [][(Calls({"TableNew"}) /\ IsReg(res'.table))
       => /\ res'.err.msg = IF WellShaped(res'.def) THEN "table exists"
                            ELSE "bad table schema"
          /\ kv' = kv
          /\ reg' = reg
          /\ res'.def.Prefix = 0]_vars

\* with two tables registered, a TableNew of a well-formed definition with
\* the name of one of them returned 'table exists'
ExistsWitness ==
    /\ res.op = "TableNew"
    /\ res.err = Err("table exists", res.table)
    /\ WellShaped(res.def)
    /\ Len(reg) >= 2
    /\ RegDef(res.table) # res.def

\* the i-th successful TableNew assigned the prefix 100 + i - 1 and
\* persisted the definition with it, the registered tables have distinct
\* prefixes, all at least 100, and the counter under next_prefix is the
\* largest prefix plus one
PrefixesInOrder ==
    /\ \A i \in 1..Len(reg) :
           /\ reg[i].Prefix = TABLE_PREFIX_MIN + i - 1
           /\ getTableDefDB(kv, reg[i].Name) = reg[i]
    /\ Cardinality({getTableDefDB(kv, reg[i].Name).Prefix : i \in 1..Len(reg)})
           = Len(reg)
    /\ reg # <<>> =>
           /\ Counter.ok
           /\ uint32LE(Counter.rec.Vals[2].Str) = reg[Len(reg)].Prefix + 1
    /\ (res.op = "TableNew" /\ res.err = NoErr) => res.def = reg[Len(reg)]

\* C9 as stated: in every reachable state the successful TableNew calls
\* have assigned 100, 101, ... in call order, no two registered tables share
\* a prefix, and the counter is the largest prefix plus one.
PrefixMonotoneAlways == PrefixesInOrder

\* C9 amended: the same, in every state reached without a caller writing or
\* deleting rows of the internal tables @meta and @table itself.
PrefixMonotone == ~hands => PrefixesInOrder

\* the third table has just been created, with rows in an earlier one
PrefixWitness ==
    /\ res.op = "TableNew"
    /\ res.err = NoErr
    /\ ~hands
    /\ Len(reg) = 3
    /\ res.def.Prefix = 102
    /\ \E n \in DOMAIN rows : rows[n] # {}

\* C10: a TableNew, Insert, Update, Upsert, Delete or Scan that returns one
\* of the recoverable errors leaves the store as it was.
NoPartialMutation ==
    [][(/\ Calls({"TableNew", "Insert", "Update", "Upsert", "Delete", "Scan"})
        /\ res'.err.msg \in Recoverable)
       => kv' = kv]_vars

\* a Delete naming a column beside the key of a stored row returned
\* 'extra column', and the row is still there
NoPartialWitness ==
    /\ res.op = "Delete"
    /\ res.err.msg = "extra column"
    /\ IsReg(res.table)
    /\ HoldsKey(RegDef(res.table), res.arg)
    /\ RowsAt(res.table, res.arg) # {}
    /\ Get(kv, tables, res.table, res.arg).ok

\* the key of the store that Delete of rec from a table of schema def names
StoreKey(def, rec) == encodeKey(<<>>, def.Prefix, InOrder(def, rec, def.PKeys))

\* Delete with exactly the primary key: the key leaves the store and nothing
\* else changes, the result tells whether it was there, Get finds nothing
DeletedExactly(def, rec) ==
    /\ res'.err = NoErr
    /\ res'.ret = (StoreKey(def, rec) \in DOMAIN kv)
    /\ res'.ret = (RowsAt(res'.table, rec) # {})
    /\ kv' = [k \in (DOMAIN kv) \ {StoreKey(def, rec)} |-> kv[k]]
    /\ ~res'.ret => kv' = kv
    /\ ~Get(kv', tables', res'.table, rec).ok

Rejected(msg) == res'.err.msg = msg /\ ~res'.ret /\ kv' = kv

\* C16 as stated: Delete with exactly the primary-key columns removes the
\* row and reports whether it existed; a record with the key and a non-key
\* schema column is rejected with 'extra column', one lacking a key column
\* with 'missing column'.
DeleteAsStated ==
    [][(Calls({"Delete"}) /\ IsReg(res'.table)) =>
       LET def == RegDef(res'.table)
           rec == res'.arg
       IN  /\ WellFormed(def, rec, def.PKeys) => DeletedExactly(def, rec)
           /\ (/\ HoldsKey(def, rec)
               /\ \E i \in (def.PKeys + 1)..Len(def.Cols) : Named(def, rec, i))
              => Rejected("extra column")
           /\ (\E i \in 1..def.PKeys : ~Named(def, rec, i))
              => Rejected("missing column")]_vars

\* C16 amended: as stated when every schema column the record names has the
\* type of the schema; a record that names a schema column with another
\* type is rejected with 'bad column type', whatever else it holds or
\* lacks.  Every rejected Delete reports false and changes nothing.
DeleteByKey ==
    [][(Calls({"Delete"}) /\ IsReg(res'.table)) =>
       LET def == RegDef(res'.table)
           rec == res'.arg
       IN  /\ WellFormed(def, rec, def.PKeys) => DeletedExactly(def, rec)
           /\ (/\ Typed(def, rec)
               /\ HoldsKey(def, rec)
               /\ \E i \in (def.PKeys + 1)..Len(def.Cols) : Named(def, rec, i))
              => Rejected("extra column")
           /\ (/\ Typed(def, rec)
               /\ \E i \in 1..def.PKeys : ~Named(def, rec, i))
              => Rejected("missing column")
           /\ ~Typed(def, rec) => Rejected("bad column type")]_vars

\* a Delete by key alone removed one of two rows of a table and reported
\* that it existed
DeleteWitness ==
    /\ res.op = "Delete"
    /\ res.ret
    /\ res.err = NoErr
    /\ IsReg(res.table)
    /\ WellFormed(RegDef(res.table), res.arg, RegDef(res.table).PKeys)
    /\ StoreKey(RegDef(res.table), res.arg) \notin DOMAIN kv
    /\ rows[res.table] # {}
    /\ ~Get(kv, tables, res.table, res.arg).ok

\* the keys the rows rs of a table of schema def are stored under
RowKeys(def, rs) == {encodeKey(<<>>, def.Prefix, KeyOf(def, r)) : r \in rs}

\* every table with its prefix and the keys of its rows: the tables created,
\* @meta with the counter, @table with one row for each table created
Keyspaces ==
    {[p |-> reg[i].Prefix, ks |-> RowKeys(reg[i], rows[reg[i].Name])] :
        i \in 1..Len(reg)}
    \cup {[p  |-> TDEF_META.Prefix,
           ks |-> IF reg = <<>> THEN {}
                  ELSE RowKeys(TDEF_META, {<<BytesValue(StrBytes["next_prefix"])>>})],
          [p  |-> TDEF_TABLE.Prefix,
           ks |-> RowKeys(TDEF_TABLE,
                          {<<BytesValue(StrBytes[reg[i].Name])>> : i \in 1..Len(reg)})]}

\* the keys of a table of lower prefix are below those of one of higher
\* prefix, and the store holds these keys and no other
KeysApart ==
    /\ \A t, u \in Keyspaces :
           t.p < u.p => \A k \in t.ks, j \in u.ks : lexLess(k, j)
    /\ Cardinality({t.p : t \in Keyspaces}) = Len(reg) + 2
    /\ DOMAIN kv = UNION {t.ks : t \in Keyspaces}

\* the lowest and the highest record of the primary key of def
EndKey(def, low) ==
    [Cols |-> SubSeq(def.Cols, 1, def.PKeys),
     Vals |-> [i \in 1..def.PKeys |->
                 IF def.Types[i] = TYPE_INT64
                 THEN Int64Value(IF low THEN -2147483647 ELSE 2147483647)
                 ELSE BytesValue(IF low THEN <<>> ELSE <<255>>)]]

RECURSIVE scanLoop(_, _)
\* the records of the loop: while sc.Valid() { sc.Deref(&rec); sc.Next() }
scanLoop(store, s) ==
    IF scValid(store, s)
    THEN <<scDeref(store, s)>> \o scanLoop(store, scNext(store, s))
    ELSE <<>>

\* what dbScan over the whole of the table of schema tdef yields
ScanAll(store, tdef) ==
    With(dbScan(store, tdef,
                NewScanner(CMP_GE, CMP_LE, EndKey(tdef, TRUE), EndKey(tdef, FALSE))),
         LAMBDA r : IF r.err # NoErr THEN <<r.err>> ELSE scanLoop(store, r.sc))

\* the records Get is tried with
Probes ==
    IsoKeys \cup IsoSchemaKeys
            \cup {AddStr(EmptyRecord, "key", StrBytes["next_prefix"])}

\* all that Get and Scan tell of a table: both look the schema up with
\* getTableDef and fail alike when there is none
TableView(store, tdef) ==
    IF tdef = NoTdef THEN <<>>
    ELSE [gets |-> [rec \in Probes |-> dbGet(store, tdef, rec)],
          scan |-> ScanAll(store, tdef)]

\* a Scan of the whole of a created table yields the rows rws of that
\* table and no other
OwnRows(store, cache, rws) ==
    \A i \in 1..Len(reg) :
        \E out \in {ScanAll(store, getTableDef(store, cache, reg[i].Name).tdef)} :
            /\ Len(out) = Cardinality(rws[reg[i].Name])
            /\ {out[j].Vals : j \in 1..Len(out)} = rws[reg[i].Name]

\* the prefix of a schema, -1 when there is none
PrefixOf(tdef) == IF tdef = NoTdef THEN -1 ELSE tdef.Prefix

\* the step is a write to a table
Writes == Calls({"Insert", "Update", "Upsert", "Delete"})

\* the schema the write was made with
WrittenDef == getTableDef(kv, tables, res'.table).tdef

\* the write leaves what Get and Scan yield of every other table with
\* another prefix as it was (as they do with the same store and schema)
OthersSame ==
    \E p \in {PrefixOf(WrittenDef)} :
        \A u \in (Names \cup DOMAIN INTERNAL_TABLES) \ {res'.table} :
            \E tdef \in {getTableDef(kv, tables, u).tdef},
               tdef2 \in {getTableDef(kv', tables', u).tdef} :
                PrefixOf(tdef) # p =>
                    \/ kv' = kv /\ tdef2 = tdef
                    \/ TableView(kv', tdef2) = TableView(kv, tdef)

\* every key of the store outside the prefix of the table written stays,
\* with its value
OtherKeysStay ==
    \E p \in {putUint32BE(PrefixOf(WrittenDef))} :
        \A k \in (DOMAIN kv) \cup (DOMAIN kv') :
            SubSeq(k, 1, 4) # p =>
                k \in DOMAIN kv /\ k \in DOMAIN kv' /\ kv'[k] = kv[k]

\* C15 as stated: an Insert, Update, Upsert or Delete on one table leaves
\* what every Get and the Scan of every other table with another prefix
\* yields as it was, @meta and @table among the tables.
IsolationAsStated ==
    [][Writes => OthersSame]_vars

\* C15 amended: the keys of a table of lower prefix, @meta and @table among
\* them, are byte-wise below the keys of a table of higher prefix; a write
\* on one table changes no key or value of the store under another prefix;
\* unless the table written is @table, where the schemas of the other
\* tables are read from, it leaves what every Get and the Scan of every
\* other table yields as it was; and the Scan of a table yields the rows of
\* that table only, also when another table holds the same primary keys.
TableIsolation ==
    [][/\ ~hands => KeysApart /\ OwnRows(kv, tables, rows)
       /\ Writes =>
            /\ OtherKeysStay
            /\ res'.table # "@table" => OthersSame]_vars

\* two tables hold a row under the key 2, with different values; the last
\* call wrote the row of b, and Get on a still finds the row of a
IsolationWitness ==
    /\ res.op \in {"Insert", "Upsert"}
    /\ res.table = "b"
    /\ res.ret
    /\ ~hands
    /\ IsReg("a") /\ IsReg("b")
    /\ <<Int64Value(2), BytesValue(<<>>)>> \in rows["a"]
    /\ <<Int64Value(2), BytesValue(<<0, 1, 7>>)>> \in rows["b"]
    /\ Get(kv, tables, "a", IntPK(2)).rec.Vals = <<Int64Value(2), BytesValue(<<>>)>>
    /\ RegDef("a").Prefix < RegDef("b").Prefix
    /\ KeysApart

(***************************************************************************)
(* The codec: the properties.                                              *)
(***************************************************************************)

\* C11: decodeValues of encodeValues of a sequence, with out tagged with the
\* types of the sequence, gives back every value and uses up the input, and
\* so does decodeKey of encodeKey with any prefix.
CodecRoundTrip ==
    cod.st = "dec" =>
        /\ cod.da.vals = cod.a /\ cod.da.rest = <<>>
        /\ cod.dk.vals = cod.a /\ cod.dk.rest = <<>>

\* a string of the bytes 1 and 0 beside a negative integer, under a prefix
\* with zero bytes, came back
CodecWitness ==
    /\ cod.st = "dec"
    /\ cod.a = <<BytesValue(<<1, 0>>), Int64Value(-1)>>
    /\ cod.prefix = 65536
    /\ cod.dk.vals = cod.a
    /\ cod.ea = <<1, 2, 1, 1, 0, 127, 255, 255, 255, 255, 255, 255, 255>>

\* less, equal or greater as -1, 0, 1: byte strings, and value sequences
ByteOrder(x, y) == IF lexLess(x, y) THEN -1 ELSE IF x = y THEN 0 ELSE 1

ValueOrder(x, y) == IF KeyLess(x, y) THEN -1 ELSE IF x = y THEN 0 ELSE 1

\* C12: for two sequences of one type shape, the byte-wise order of their
\* encodings is the element-wise order of the values (INT64 as signed
\* integers, BYTES as byte strings).
OrderPreserved ==
    cod.st = "enc" => ByteOrder(cod.ea, cod.eb) = ValueOrder(cod.a, cod.b)

\* a string and a proper extension of it, each before a later column, with
\* the later columns in the other order: the shorter string decides
OrderWitness ==
    /\ cod.st = "enc"
    /\ cod.a = <<BytesValue(<<0>>), Int64Value(2147483647)>>
    /\ cod.b = <<BytesValue(<<0, 0>>), Int64Value(-1)>>
    /\ lexLess(cod.ea, cod.eb)

====
